---- MODULE Spec2Model ----
(***************************************************************************)
(* Model of the content-part codec (src/v1/types/content_types.rs) and of  *)
(* the streaming loop of GenerativeModel::generate_content_stream          *)
(* (src/v1/models/generative_models.rs).                                   *)
(*                                                                         *)
(* A serde_json::Value is a record [kind, v].  An object's v is the        *)
(* sequence of its <<key, value>> entries in the order Map::iter() yields  *)
(* them: ascending key order when serde_json's Map is a BTreeMap (the      *)
(* default build), insertion order when the preserve_order feature is on.  *)
(* A Rust HashMap is a TLA+ function from keys to values.                  *)
(***************************************************************************)
EXTENDS Integers, Sequences, FiniteSets, TLC

VARIABLES
    preserve_order, \* build: serde_json Map keeps insertion order (IndexMap)
    hash_order,     \* iteration order of std HashMap in this run
    pc,             \* position of the codec caller
    part,           \* the Part / ContentType handed to the encoder
    wire,           \* JSON document handed to the decoder, in document order
    result,         \* outcome of the last deserialize call
    transport,      \* items the byte stream will still yield
    printed,        \* pieces written by dbg!(p), in order
    consumed,       \* chunks taken from the stream so far, in order
    ret,            \* state of generate_content_stream
    model,          \* the GenerativeModel the caller holds
    request,        \* the GenerateContentRequest prepared last
    sent            \* HTTP requests issued so far, in order

codecVars == <<pc, part, wire, result>>
streamVars == <<transport, printed, consumed, ret>>
buildVars == <<preserve_order, hash_order>>
clientVars == <<model, request, sent>>
vars == <<preserve_order, hash_order, pc, part, wire, result,
          transport, printed, consumed, ret, model, request, sent>>

-----------------------------------------------------------------------------
(* Bounds *)

MaxKeys == 2      \* entries of a top-level object handed to Part::deserialize
MaxParts == 2     \* parts of a ContentType
MaxChunks == 2    \* chunks the transport yields
MaxChunkLen == 2  \* bytes in one chunk

-----------------------------------------------------------------------------
(* serde_json::Value *)

JNull == [kind |-> "null"]
JBool(b) == [kind |-> "bool", v |-> b]
JNum(n) == [kind |-> "num", v |-> n]
JStr(s) == [kind |-> "str", v |-> s]
JArr(a) == [kind |-> "arr", v |-> a]
JObj(entries) == [kind |-> "obj", v |-> entries]

None == [some |-> FALSE]
Some(x) == [some |-> TRUE, v |-> x]

Range(s) == {s[i] : i \in 1..Len(s)}

\* The keys of the model in the byte order of String's Ord, which is the
\* order a BTreeMap<String, Value> iterates in.
KeyOrder ==
    << "FileDataPart", "FunctionCallPart", "FunctionResponsePart",
       "InlineDataPart", "TextPart", "args", "data", "fileData", "fileUri",
       "functionCall", "functionResponse", "inlineData", "mimeType", "name",
       "other", "parts", "response", "role", "text", "x", "y" >>

Rank(k) == CHOOSE i \in 1..Len(KeyOrder) : KeyOrder[i] = k

Keys(entries) == {entries[i][1] : i \in 1..Len(entries)}

ContainsKey(entries, k) == k \in Keys(entries)

\* Map::index / Map::get on a key that is present
Get(entries, k) == entries[CHOOSE i \in 1..Len(entries) : entries[i][1] = k][2]

RECURSIVE SortByKey(_)
SortByKey(entries) ==
    IF entries = <<>> THEN <<>>
    ELSE LET i == CHOOSE j \in 1..Len(entries) :
                      \A l \in 1..Len(entries) :
                          Rank(entries[j][1]) <= Rank(entries[l][1])
             rest == [l \in 1..(Len(entries) - 1) |->
                          IF l < i THEN entries[l] ELSE entries[l + 1]]
         IN <<entries[i]>> \o SortByKey(rest)

\* The Map built by inserting entries one after the other.
MapFromEntries(entries, preserve) ==
    IF preserve THEN entries ELSE SortByKey(entries)

\* Value::deserialize of a document whose top-level object lists doc.v
ValueDeserialize(doc, preserve) ==
    IF doc.kind = "obj" THEN JObj(MapFromEntries(doc.v, preserve)) ELSE doc

as_str(value) == IF value.kind = "str" THEN Some(value.v) ELSE None
as_object(value) == IF value.kind = "obj" THEN Some(value.v) ELSE None
as_array(value) == IF value.kind = "arr" THEN Some(value.v) ELSE None

-----------------------------------------------------------------------------
(* Part and its variants *)

TextPart(t) == [variant |-> "TextPart", text |-> t]
InlineDataPart(m, d) ==
    [variant |-> "InlineDataPart", mime_type |-> m, data |-> d]
FunctionCallPart(n, a) ==
    [variant |-> "FunctionCallPart", name |-> n, args |-> a]
FunctionResponsePart(n, r) ==
    [variant |-> "FunctionResponsePart", name |-> n, response |-> r]
FileDataPart(m, u) ==
    [variant |-> "FileDataPart", mime_type |-> m, file_uri |-> u]

ContentType(r, ps) == [role |-> r, parts |-> ps]

Ok(x) == [tag |-> "Ok", val |-> x]
Err(m) == [tag |-> "Err", msg |-> m]
\* unwrap() on None and Map's Index on a missing key unwind the caller
Panic(f) == [tag |-> "Panic", field |-> f]
NoResult == [tag |-> "NoResult"]

EmptyHashMap == [k \in {} |-> JNull]

HashMapInsert(m, k, val) ==
    [j \in (DOMAIN m) \cup {k} |-> IF j = k THEN val ELSE m[j]]

\* for (key, value) in <object> { map.insert(key, value); }
RECURSIVE CollectHashMap(_, _)
MutCollectHashMapDropsLast(entries, m) ==
    IF Len(entries) <= 1 THEN m
    ELSE CollectHashMap(Tail(entries),
                        HashMapInsert(m, Head(entries)[1], Head(entries)[2]))

CollectHashMap(entries, m) ==
    IF entries = <<>> THEN m
    ELSE CollectHashMap(Tail(entries),
                        HashMapInsert(m, Head(entries)[1], Head(entries)[2]))

-----------------------------------------------------------------------------
(* impl Deserialize for Part *)

MutDecodeTextDefaults(value) ==
    IF as_str(value).some THEN Ok(TextPart(as_str(value).v))
    ELSE Ok(TextPart(""))

DecodeText(value) ==
    IF as_str(value).some THEN Ok(TextPart(as_str(value).v))
    ELSE Panic("text")

\* inline_data["mimeType"].as_str().unwrap(), inline_data["data"]...
DecodeInlineData(value) ==
    IF ~as_object(value).some THEN Panic("inlineData")
    ELSE LET inline_data == as_object(value).v IN
         IF ~ContainsKey(inline_data, "mimeType") THEN Panic("mimeType")
         ELSE IF ~as_str(Get(inline_data, "mimeType")).some
              THEN Panic("mimeType")
         ELSE IF ~ContainsKey(inline_data, "data") THEN Panic("data")
         ELSE IF ~as_str(Get(inline_data, "data")).some THEN Panic("data")
         ELSE Ok(InlineDataPart(as_str(Get(inline_data, "mimeType")).v,
                                as_str(Get(inline_data, "data")).v))

\* the args loop runs before name is read
DecodeFunctionCall(value) ==
    IF ~as_object(value).some THEN Panic("functionCall")
    ELSE LET function_call == as_object(value).v IN
         IF ~ContainsKey(function_call, "args") THEN Panic("args")
         ELSE IF ~as_object(Get(function_call, "args")).some
              THEN Panic("args")
         ELSE IF ~ContainsKey(function_call, "name") THEN Panic("name")
         ELSE IF ~as_str(Get(function_call, "name")).some THEN Panic("name")
         ELSE Ok(FunctionCallPart(
                    as_str(Get(function_call, "name")).v,
                    CollectHashMap(as_object(Get(function_call, "args")).v,
                                   EmptyHashMap)))

DecodeFunctionResponse(value) ==
    IF ~as_object(value).some THEN Panic("functionResponse")
    ELSE LET function_response == as_object(value).v IN
         IF ~ContainsKey(function_response, "response")
         THEN Panic("response")
         ELSE IF ~as_object(Get(function_response, "response")).some
              THEN Panic("response")
         ELSE IF ~ContainsKey(function_response, "name") THEN Panic("name")
         ELSE IF ~as_str(Get(function_response, "name")).some
              THEN Panic("name")
         ELSE Ok(FunctionResponsePart(
                    as_str(Get(function_response, "name")).v,
                    CollectHashMap(
                        as_object(Get(function_response, "response")).v,
                        EmptyHashMap)))

DecodeFileData(value) ==
    IF ~as_object(value).some THEN Panic("fileData")
    ELSE LET file_data == as_object(value).v IN
         IF ~ContainsKey(file_data, "mimeType") THEN Panic("mimeType")
         ELSE IF ~as_str(Get(file_data, "mimeType")).some
              THEN Panic("mimeType")
         ELSE IF ~ContainsKey(file_data, "fileUri") THEN Panic("fileUri")
         ELSE IF ~as_str(Get(file_data, "fileUri")).some
              THEN Panic("fileUri")
         ELSE Ok(FileDataPart(as_str(Get(file_data, "mimeType")).v,
                              as_str(Get(file_data, "fileUri")).v))

\* for (key, value) in obj.iter() { ... } Err("Invalid data structure.")
RECURSIVE DecodeEntries(_)
MutDecodeEntriesDefaultText(obj) ==
    IF obj = <<>> THEN Ok(TextPart(""))
    ELSE LET key == Head(obj)[1]
             value == Head(obj)[2]
         IN IF key = "text" THEN DecodeText(value)
            ELSE IF key = "inlineData" THEN DecodeInlineData(value)
            ELSE IF key = "functionCall" THEN DecodeFunctionCall(value)
            ELSE IF key = "functionResponse"
                 THEN DecodeFunctionResponse(value)
            ELSE IF key = "fileData" THEN DecodeFileData(value)
            ELSE DecodeEntries(Tail(obj))

DecodeEntries(obj) ==
    IF obj = <<>> THEN Err("Invalid data structure.")
    ELSE LET key == Head(obj)[1]
             value == Head(obj)[2]
         IN IF key = "text" THEN DecodeText(value)
            ELSE IF key = "inlineData" THEN DecodeInlineData(value)
            ELSE IF key = "functionCall" THEN DecodeFunctionCall(value)
            ELSE IF key = "functionResponse"
                 THEN DecodeFunctionResponse(value)
            ELSE IF key = "fileData" THEN DecodeFileData(value)
            ELSE DecodeEntries(Tail(obj))

\* match value { Value::Object(obj) => ..., _ => Err("Expected JSON object") }
MutPartFromValueAcceptsAny(value) ==
    IF value.kind = "obj" THEN DecodeEntries(value.v)
    ELSE Ok(TextPart(""))

PartFromValue(value) ==
    IF value.kind = "obj" THEN DecodeEntries(value.v)
    ELSE Err("Expected JSON object")

\* a decoder that looks at the first key of the object only
MutDeserializePartFirstKey(doc, preserve) ==
    LET value == ValueDeserialize(doc, preserve)
    IN IF value.kind = "obj" /\ value.v # <<>>
       THEN PartFromValue(JObj(<<Head(value.v)>>))
       ELSE PartFromValue(value)

\* Part::deserialize on a JSON document
DeserializePart(doc, preserve) ==
    PartFromValue(ValueDeserialize(doc, preserve))

-----------------------------------------------------------------------------
(* derive(Serialize) for Part and the variant structs *)

\* iteration of a HashMap: an order the map picks, here either end first
RECURSIVE HashMapEntries(_, _)
HashMapEntries(m, order) ==
    IF DOMAIN m = {} THEN <<>>
    ELSE LET k == CHOOSE j \in DOMAIN m :
                      \A l \in DOMAIN m :
                          IF order = "asc" THEN Rank(j) <= Rank(l)
                          ELSE Rank(j) >= Rank(l)
         IN <<<<k, m[k]>>>>
            \o HashMapEntries([j \in (DOMAIN m) \ {k} |-> m[j]], order)

SerializeHashMap(m, preserve, order) ==
    JObj(MapFromEntries(HashMapEntries(m, order), preserve))

\* the struct inside the variant, #[serde(rename_all = "camelCase")]
SerializeVariantStruct(p, preserve, order) ==
    IF p.variant = "TextPart"
    THEN JObj(<<<<"text", JStr(p.text)>>>>)
    ELSE IF p.variant = "InlineDataPart"
    THEN JObj(<<<<"inlineData",
                  JObj(MapFromEntries(<<<<"mimeType", JStr(p.mime_type)>>,
                                        <<"data", JStr(p.data)>>>>,
                                      preserve))>>>>)
    ELSE IF p.variant = "FunctionCallPart"
    THEN JObj(<<<<"functionCall",
                  JObj(MapFromEntries(
                      <<<<"name", JStr(p.name)>>,
                        <<"args", SerializeHashMap(p.args, preserve, order)>>>>,
                      preserve))>>>>)
    ELSE IF p.variant = "FunctionResponsePart"
    THEN JObj(<<<<"functionResponse",
                  JObj(MapFromEntries(
                      <<<<"name", JStr(p.name)>>,
                        <<"response",
                          SerializeHashMap(p.response, preserve, order)>>>>,
                      preserve))>>>>)
    ELSE JObj(<<<<"fileData",
                  JObj(MapFromEntries(<<<<"mimeType", JStr(p.mime_type)>>,
                                        <<"fileUri", JStr(p.file_uri)>>>>,
                                      preserve))>>>>)

\* enum Part derives Serialize with no tagging attribute: serde's default
\* representation wraps the variant's content under the variant's name.
SerializePart(p, preserve, order) ==
    JObj(<<<<p.variant, SerializeVariantStruct(p, preserve, order)>>>>)

-----------------------------------------------------------------------------
(* derive(Serialize, Deserialize) for ContentType *)

SerializeContentType(c, preserve, order) ==
    JObj(MapFromEntries(
        <<<<"role", JStr(c.role)>>,
          <<"parts",
            JArr([i \in 1..Len(c.parts) |->
                      SerializePart(c.parts[i], preserve, order)])>>>>,
        preserve))

\* Vec<Part>: the elements are decoded from the first on, and the first
\* failure ends the call
RECURSIVE DeserializeParts(_, _, _)
DeserializeParts(elems, preserve, acc) ==
    IF elems = <<>> THEN Ok(acc)
    ELSE LET r == DeserializePart(Head(elems), preserve)
         IN IF r.tag = "Ok"
            THEN DeserializeParts(Tail(elems), preserve, Append(acc, r.val))
            ELSE r

DeserializeRole(value) ==
    IF as_str(value).some THEN Ok(as_str(value).v)
    ELSE Err("invalid type: expected a string")

DeserializeVecPart(value, preserve) ==
    IF as_array(value).some
    THEN DeserializeParts(as_array(value).v, preserve, <<>>)
    ELSE Err("invalid type: expected a sequence")

\* visit_map of the derived visitor: fields are read as the map yields them,
\* unknown keys are skipped, a field left unset is "missing field"
RECURSIVE ContentVisitMap(_, _, _, _)
ContentVisitMap(entries, preserve, role, parts) ==
    IF entries = <<>>
    THEN IF ~role.some THEN Err("missing field role")
         ELSE IF ~parts.some THEN Err("missing field parts")
         ELSE Ok(ContentType(role.v, parts.v))
    ELSE LET key == Head(entries)[1]
             value == Head(entries)[2]
         IN IF key = "role"
            THEN LET r == DeserializeRole(value)
                 IN IF r.tag = "Ok"
                    THEN ContentVisitMap(Tail(entries), preserve,
                                         Some(r.val), parts)
                    ELSE r
            ELSE IF key = "parts"
            THEN LET r == DeserializeVecPart(value, preserve)
                 IN IF r.tag = "Ok"
                    THEN ContentVisitMap(Tail(entries), preserve,
                                         role, Some(r.val))
                    ELSE r
            ELSE ContentVisitMap(Tail(entries), preserve, role, parts)

\* visit_seq of the derived visitor: role, then parts
ContentVisitSeq(elems, preserve) ==
    IF Len(elems) < 1
    THEN Err("invalid length 0, expected struct ContentType with 2 elements")
    ELSE LET r == DeserializeRole(elems[1])
         IN IF r.tag # "Ok" THEN r
            ELSE IF Len(elems) < 2
            THEN Err("invalid length 1, expected struct ContentType with 2 elements")
            ELSE LET q == DeserializeVecPart(elems[2], preserve)
                 IN IF q.tag # "Ok" THEN q
                    ELSE IF Len(elems) > 2
                    THEN Err("trailing elements")
                    ELSE Ok(ContentType(r.val, q.val))

DeserializeContentType(doc, preserve) ==
    IF doc.kind = "obj"
    THEN ContentVisitMap(MapFromEntries(doc.v, preserve), preserve, None, None)
    ELSE IF doc.kind = "arr" THEN ContentVisitSeq(doc.v, preserve)
    ELSE Err("invalid type: expected struct ContentType")

-----------------------------------------------------------------------------
(* Inputs of the codec *)

NoPart == [variant |-> "NoPart"]
NoWire == [kind |-> "none"]
NoModel == [none |-> "GenerativeModel"]
NoRequest == [none |-> "GenerateContentRequest"]

\* values of every JSON kind, as they occur under args / response
ArgObjs ==
    { JObj(<<>>),
      JObj(<<<<"x", JStr("a")>>>>),
      JObj(<<<<"x", JNull>>, <<"y", JBool(TRUE)>>>>),
      JObj(<<<<"x", JNum(1)>>, <<"y", JStr("a")>>>>),
      JObj(<<<<"x", JArr(<<>>)>>, <<"y", JObj(<<>>)>>>>) }

HashMaps == {[k \in Keys(o.v) |-> Get(o.v, k)] : o \in ArgObjs}

Parts ==
    {TextPart(t) : t \in {"hi", ""}}
    \cup {InlineDataPart("image/png", d) : d \in {"QQ==", ""}}
    \cup {FunctionCallPart("f", a) : a \in HashMaps}
    \cup {FunctionResponsePart("f", r) : r \in HashMaps}
    \cup {FileDataPart("image/png", u) : u \in {"files/1", ""}}

ContentParts ==
    { TextPart("hi"), TextPart(""), InlineDataPart("image/png", "QQ=="),
      FunctionCallPart("f", [k \in {"x"} |-> JNum(1)]),
      FunctionResponsePart("f", EmptyHashMap),
      FileDataPart("image/png", "files/1") }

SeqsUpTo(S, n) == UNION {[1..k -> S] : k \in 0..n}

Contents ==
    {ContentType(r, ps) : r \in {"user", "model"},
                          ps \in SeqsUpTo(ContentParts, MaxParts)}

\* the two-field objects found under inlineData (k = "data") and fileData
\* (k = "fileUri"), in key order (data < fileUri < mimeType < other), well
\* formed, with one defect, or with a key the decoder does not read
BlobPayloads(k) ==
    { JObj(<<<<k, JStr("s")>>, <<"mimeType", JStr("image/png")>>>>),
      JObj(<<<<"mimeType", JStr("image/png")>>>>),
      JObj(<<<<k, JStr("s")>>>>),
      JObj(<<<<k, JNum(1)>>, <<"mimeType", JStr("image/png")>>>>),
      JObj(<<<<k, JStr("s")>>, <<"mimeType", JNull>>>>),
      JObj(<<<<k, JStr("s")>>, <<"mimeType", JStr("image/png")>>,
             <<"other", JNum(1)>>>>),
      JStr("s") }

\* the objects found under functionCall (k = "args") and functionResponse
\* (k = "response"), in key order (args < name < response)
FunctionPayloads(k) ==
    LET two(n, a) == IF k = "args" THEN <<<<k, a>>, <<"name", n>>>>
                     ELSE <<<<"name", n>>, <<k, a>>>>
    IN {JObj(two(JStr("f"), a)) : a \in ArgObjs}
       \cup { JObj(<<<<"name", JStr("f")>>>>),
              JObj(two(JStr("f"), JStr("a"))),
              JObj(<<<<k, JObj(<<>>)>>>>),
              JObj(two(JNum(1), JObj(<<>>))),
              JNum(1) }

TopKeys ==
    {"text", "inlineData", "functionCall", "functionResponse", "fileData",
     "other", "TextPart"}

PayloadsFor(k) ==
    IF k = "text" THEN {JStr("hi"), JNum(1), JNull}
    ELSE IF k = "inlineData" THEN BlobPayloads("data")
    ELSE IF k = "functionCall" THEN FunctionPayloads("args")
    ELSE IF k = "functionResponse" THEN FunctionPayloads("response")
    ELSE IF k = "fileData" THEN BlobPayloads("fileUri")
    ELSE IF k = "TextPart" THEN {JObj(<<<<"text", JStr("hi")>>>>)}
    ELSE {JStr("hi")}

TopEntries == UNION {{<<k, val>> : val \in PayloadsFor(k)} : k \in TopKeys}

\* JSON objects as documents: entries in any order, keys distinct
WireObjects ==
    {JObj(es) : es \in {e \in SeqsUpTo(TopEntries, MaxKeys) :
                            \A i, j \in 1..Len(e) :
                                e[i][1] = e[j][1] => i = j}}

WireScalars ==
    { JNull, JBool(TRUE), JNum(1), JStr("text"), JArr(<<>>),
      JArr(<<JObj(<<<<"text", JStr("hi")>>>>)>>) }

WireValues == WireObjects \cup WireScalars

-----------------------------------------------------------------------------
(* The codec's caller *)

StreamIdle ==
    /\ transport = <<>>
    /\ printed = <<>>
    /\ consumed = <<>>
    /\ ret = "idle"

ClientIdle ==
    /\ model = NoModel
    /\ request = NoRequest
    /\ sent = <<>>

InitEncodePart ==
    /\ pc = "part"
    /\ part \in Parts
    /\ wire = NoWire
    /\ hash_order \in {"asc", "desc"}

InitEncodeContent ==
    /\ pc = "content"
    /\ part \in Contents
    /\ wire = NoWire
    /\ hash_order \in {"asc", "desc"}

InitDecodePart ==
    /\ pc = "wire"
    /\ part = NoPart
    /\ wire \in WireValues
    /\ hash_order = "asc"

InitCodec ==
    /\ preserve_order \in BOOLEAN
    /\ result = NoResult
    /\ InitEncodePart \/ InitEncodeContent \/ InitDecodePart
    /\ StreamIdle
    /\ ClientIdle

\* serde_json::to_value(&part)
EncodePart ==
    /\ pc = "part"
    /\ wire' = SerializePart(part, preserve_order, hash_order)
    /\ pc' = "part_encoded"
    /\ UNCHANGED <<part, result, buildVars, clientVars, streamVars>>

\* Part::deserialize
DecodePart ==
    /\ pc \in {"wire", "part_encoded"}
    /\ result' = DeserializePart(wire, preserve_order)
    /\ pc' = IF pc = "wire" THEN "wire_decoded" ELSE "part_decoded"
    /\ UNCHANGED <<part, wire, buildVars, clientVars, streamVars>>

\* serde_json::to_value(&content)
EncodeContent ==
    /\ pc = "content"
    /\ wire' = SerializeContentType(part, preserve_order, hash_order)
    /\ pc' = "content_encoded"
    /\ UNCHANGED <<part, result, buildVars, clientVars, streamVars>>

\* ContentType::deserialize
DecodeContent ==
    /\ pc = "content_encoded"
    /\ result' = DeserializeContentType(wire, preserve_order)
    /\ pc' = "content_decoded"
    /\ UNCHANGED <<part, wire, buildVars, clientVars, streamVars>>

NextCodec == EncodePart \/ DecodePart \/ EncodeContent \/ DecodeContent

SpecCodec == InitCodec /\ [][NextCodec]_vars

-----------------------------------------------------------------------------
(* Response types: serde's derived Deserialize, driven by serde_json's     *)
(* from_slice (Response::json), which yields an object's keys in document  *)
(* order                                                                   *)

MaxCandidates == 1

Min(S) == CHOOSE i \in S : \A j \in S : i <= j

Field(k, n, o) == [key |-> k, name |-> n, optional |-> o]

\* the members of an object or an array, as the visitor meets them
Arity(value) == IF value.kind \in {"obj", "arr"} THEN Len(value.v) ELSE 0

\* the field the i-th member is decoded for: its key in an object, the i-th
\* declared field in an array
KeyAt(value, fields, i) ==
    IF value.kind = "obj" THEN value.v[i][1]
    ELSE IF i <= Len(fields) THEN fields[i].key
    ELSE ""

ValAt(value, i) == IF value.kind = "obj" THEN value.v[i][2] ELSE value.v[i]

\* visit_map of a derived struct visitor, dec[i] being what the field's type
\* makes of the i-th value: a key seen twice is an error, the value of a
\* known key is decoded when the key is met, any other key is skipped; at
\* the end a field left unset is None if it is an Option and "missing
\* field" otherwise, the first in declaration order
VisitMap(entries, fields, dec) ==
    LET known == {fields[j].key : j \in 1..Len(fields)}
        res == [i \in 1..Len(entries) |->
                  IF entries[i][1] \notin known THEN Ok(JNull)
                  ELSE IF \E j \in 1..(i - 1) : entries[j][1] = entries[i][1]
                  THEN Err("duplicate field " \o entries[i][1])
                  ELSE dec[i]]
        bad == {i \in 1..Len(entries) : res[i].tag # "Ok"}
        missing == {j \in 1..Len(fields) :
                      ~fields[j].optional /\ ~ContainsKey(entries, fields[j].key)}
        at(k) == res[CHOOSE i \in 1..Len(entries) : entries[i][1] = k].val
    IN IF bad # {} THEN res[Min(bad)]
       ELSE IF missing # {}
       THEN Err("missing field " \o fields[Min(missing)].key)
       ELSE Ok([n \in {fields[j].name : j \in 1..Len(fields)} |->
                  LET f == fields[CHOOSE j \in 1..Len(fields) :
                                      fields[j].name = n]
                  IN IF ContainsKey(entries, f.key) THEN at(f.key) ELSE None])

\* visit_seq of a derived struct visitor: one element per field, in
\* declaration order
VisitSeq(elems, fields, dec) ==
    LET n == IF Len(elems) < Len(fields) THEN Len(elems) ELSE Len(fields)
        bad == {i \in 1..n : dec[i].tag # "Ok"}
    IN IF bad # {} THEN dec[Min(bad)]
       ELSE IF Len(elems) < Len(fields) THEN Err("invalid length")
       ELSE IF Len(elems) > Len(fields) THEN Err("trailing characters")
       ELSE Ok([m \in {fields[j].name : j \in 1..Len(fields)} |->
                  dec[CHOOSE j \in 1..Len(fields) : fields[j].name = m].val])

DeserializeStruct(value, fields, dec) ==
    IF value.kind = "obj" THEN VisitMap(value.v, fields, dec)
    ELSE IF value.kind = "arr" THEN VisitSeq(value.v, fields, dec)
    ELSE Err("invalid type: expected struct")

\* Vec<T>, dec[i] being what T makes of the i-th element: elements are
\* decoded from the first on, the first failure ends the call
DeserializeVec(value, dec) ==
    IF value.kind # "arr" THEN Err("invalid type: expected a sequence")
    ELSE LET bad == {i \in 1..Len(value.v) : dec[i].tag # "Ok"}
         IN IF bad # {} THEN dec[Min(bad)]
            ELSE Ok([i \in 1..Len(value.v) |-> dec[i].val])

\* Option<T>: null is None, anything else is decoded as T
DeserializeOption(value, r) ==
    IF value.kind = "null" THEN Ok(None)
    ELSE IF r.tag = "Ok" THEN Ok(Some(r.val)) ELSE r

\* the numbers of the model are integers of 32 signed bits, so the only
\* number an u32 refuses is a negative one, and an i32 takes every number
DeserializeU32(value) ==
    IF value.kind # "num" THEN Err("invalid type: expected u32")
    ELSE IF value.v < 0 THEN Err("invalid value: expected u32")
    ELSE Ok(value.v)

DeserializeI32(value) ==
    IF value.kind # "num" THEN Err("invalid type: expected i32")
    ELSE Ok(value.v)

DeserializeString(value) ==
    IF value.kind = "str" THEN Ok(value.v)
    ELSE Err("invalid type: expected a string")

DeserializeBool(value) ==
    IF value.kind = "bool" THEN Ok(value.v)
    ELSE Err("invalid type: expected a boolean")

\* an enum of unit variants: the variant's name as a string, or an object
\* with the name as its only key and null under it
DeserializeUnitVariant(value, variants) ==
    IF value.kind = "str"
    THEN IF value.v \in variants THEN Ok(value.v) ELSE Err("unknown variant")
    ELSE IF value.kind = "obj" /\ Len(value.v) = 1
    THEN IF value.v[1][1] \notin variants THEN Err("unknown variant")
         ELSE IF value.v[1][2].kind # "null"
         THEN Err("invalid type: expected unit variant")
         ELSE Ok(value.v[1][1])
    ELSE Err("invalid type: expected string or map")

HarmCategory ==
    {"HARM_CATEGORY_UNSPECIFIED", "HARM_CATEGORY_HATE_SPEECH",
     "HARM_CATEGORY_SEXUALLY_EXPLICIT", "HARM_CATEGORY_HARASSMENT",
     "HARM_CATEGORY_DANGEROUS_CONTENT"}

HarmProbability ==
    {"HARM_PROBABILITY_UNSPECIFIED", "NEGLIGIBLE", "LOW", "MEDIUM", "HIGH"}

BlockReason == {"BLOCKED_REASON_UNSPECIFIED", "SAFETY", "OTHER"}

\* responses.rs and response_type.rs each declare FinishReason; LANGUAGE is
\* a variant of the first only
ResponsesFinishReason ==
    {"FINISH_REASON_UNSPECIFIED", "STOP", "MAX_TOKENS", "SAFETY",
     "RECITATION", "LANGUAGE", "OTHER"}

ResponseTypeFinishReason == ResponsesFinishReason \ {"LANGUAGE"}

\* ContentType::deserialize from the byte stream: the derived visitor sees
\* the keys in document order; each Part still goes through a Value
ContentTypeFromSlice(value, preserve) ==
    IF value.kind = "obj" THEN ContentVisitMap(value.v, preserve, None, None)
    ELSE IF value.kind = "arr" THEN ContentVisitSeq(value.v, preserve)
    ELSE Err("invalid type: expected struct ContentType")

\* content_types::Content, which responses.rs imports: a role and the
\* ordered parts, each part decoded by the Part decoder
DeserializeContent(value, preserve) ==
    IF value.kind = "obj" THEN ContentVisitMap(value.v, preserve, None, None)
    ELSE IF value.kind = "arr" THEN ContentVisitSeq(value.v, preserve)
    ELSE Err("invalid type: expected struct Content")

(* responses.rs *)

ResponsesSafetyRating(value) ==
    LET fields ==
        << Field("category", "category", FALSE),
           Field("probability", "probability", FALSE),
           Field("blocked", "blocked", TRUE) >>
    IN DeserializeStruct(value, fields,
        [i \in 1..Arity(value) |->
            LET k == KeyAt(value, fields, i)
                x == ValAt(value, i)
            IN IF k = "category" THEN DeserializeUnitVariant(x, HarmCategory)
            ELSE IF k = "probability"
            THEN DeserializeUnitVariant(x, HarmProbability)
            ELSE DeserializeOption(x, DeserializeBool(x))])

ResponsesCitationSource(value) ==
    LET fields ==
        << Field("startIndex", "start_index", TRUE),
           Field("endIndex", "end_index", TRUE),
           Field("uri", "uri", TRUE),
           Field("license", "license", TRUE) >>
    IN DeserializeStruct(value, fields,
        [i \in 1..Arity(value) |->
            LET k == KeyAt(value, fields, i)
                x == ValAt(value, i)
            IN IF k \in {"startIndex", "endIndex"}
            THEN DeserializeOption(x, DeserializeU32(x))
            ELSE DeserializeOption(x, DeserializeString(x))])

ResponsesCitationMetadata(value) ==
    LET fields ==
        << Field("citationSources", "citation_sources", FALSE) >>
    IN DeserializeStruct(value, fields,
        [i \in 1..Arity(value) |->
            LET k == KeyAt(value, fields, i)
                x == ValAt(value, i)
            IN DeserializeVec(x, [j \in 1..Arity(x) |-> ResponsesCitationSource(x.v[j])])])

ResponsesPromptFeedback(value) ==
    LET fields ==
        << Field("blockReason", "block_reason", FALSE),
           Field("safetyRatings", "safety_ratings", FALSE),
           Field("blockReasonMessage", "block_reason_message", TRUE) >>
    IN DeserializeStruct(value, fields,
        [i \in 1..Arity(value) |->
            LET k == KeyAt(value, fields, i)
                x == ValAt(value, i)
            IN IF k = "blockReason" THEN DeserializeUnitVariant(x, BlockReason)
            ELSE IF k = "safetyRatings"
            THEN DeserializeVec(x, [j \in 1..Arity(x) |-> ResponsesSafetyRating(x.v[j])])
            ELSE DeserializeOption(x, DeserializeString(x))])

UsageMetadata(value) ==
    LET fields ==
        << Field("promptTokenCount", "prompt_token_count", FALSE),
           Field("candidatesTokenCount", "candidates_token_count", FALSE),
           Field("totalTokenCount", "total_token_count", FALSE),
           Field("cachedContentTokenCount", "cached_content_token_count",
                 TRUE) >>
    IN DeserializeStruct(value, fields,
        [i \in 1..Arity(value) |->
            LET k == KeyAt(value, fields, i)
                x == ValAt(value, i)
            IN IF k = "cachedContentTokenCount"
            THEN DeserializeOption(x, DeserializeU32(x))
            ELSE DeserializeU32(x)])

Candidate(value, preserve) ==
    LET fields ==
        << Field("index", "index", FALSE),
           Field("content", "content", FALSE),
           Field("finishReason", "finish_reason", TRUE),
           Field("safetyRatings", "safety_ratings", FALSE),
           Field("citationMetadata", "citation_metadata", TRUE),
           Field("tokenCount", "token_count", TRUE) >>
    IN DeserializeStruct(value, fields,
        [i \in 1..Arity(value) |->
            LET k == KeyAt(value, fields, i)
                x == ValAt(value, i)
            IN IF k = "index" THEN DeserializeU32(x)
            ELSE IF k = "content" THEN DeserializeContent(x, preserve)
            ELSE IF k = "finishReason"
            THEN DeserializeOption(x,
                     DeserializeUnitVariant(x, ResponsesFinishReason))
            ELSE IF k = "safetyRatings"
            THEN DeserializeVec(x, [j \in 1..Arity(x) |-> ResponsesSafetyRating(x.v[j])])
            ELSE IF k = "citationMetadata"
            THEN DeserializeOption(x, ResponsesCitationMetadata(x))
            ELSE DeserializeOption(x, DeserializeU32(x))])

\* responses::GenerateContentResponse, the type generate_content decodes
ResponsesGenerateContentResponse(value, preserve) ==
    LET fields ==
        << Field("candidates", "candidates", FALSE),
           Field("promptFeedback", "prompt_feedback", TRUE),
           Field("usageMetadata", "usage_metadata", FALSE) >>
    IN DeserializeStruct(value, fields,
        [i \in 1..Arity(value) |->
            LET k == KeyAt(value, fields, i)
                x == ValAt(value, i)
            IN IF k = "candidates"
            THEN DeserializeVec(x, [j \in 1..Arity(x) |-> Candidate(x.v[j], preserve)])
            ELSE IF k = "promptFeedback"
            THEN DeserializeOption(x, ResponsesPromptFeedback(x))
            ELSE UsageMetadata(x)])

(* response_type.rs *)

ResponseTypeSafetyRating(value) ==
    LET fields ==
        << Field("category", "category", FALSE),
           Field("probability", "probability", FALSE) >>
    IN DeserializeStruct(value, fields,
        [i \in 1..Arity(value) |->
            LET k == KeyAt(value, fields, i)
                x == ValAt(value, i)
            IN IF k = "category" THEN DeserializeUnitVariant(x, HarmCategory)
            ELSE DeserializeUnitVariant(x, HarmProbability)])

ResponseTypeCitationSource(value) ==
    LET fields ==
        << Field("startIndex", "start_index", TRUE),
           Field("endIndex", "end_index", TRUE),
           Field("uri", "uri", TRUE),
           Field("license", "license", TRUE) >>
    IN DeserializeStruct(value, fields,
        [i \in 1..Arity(value) |->
            LET k == KeyAt(value, fields, i)
                x == ValAt(value, i)
            IN IF k \in {"startIndex", "endIndex"}
            THEN DeserializeOption(x, DeserializeI32(x))
            ELSE DeserializeOption(x, DeserializeString(x))])

ResponseTypeCitationMetadata(value) ==
    LET fields ==
        << Field("citationSources", "citation_sources", FALSE) >>
    IN DeserializeStruct(value, fields,
        [i \in 1..Arity(value) |->
            LET k == KeyAt(value, fields, i)
                x == ValAt(value, i)
            IN DeserializeVec(x, [j \in 1..Arity(x) |-> ResponseTypeCitationSource(x.v[j])])])

GenerateContentCandidate(value, preserve) ==
    LET fields ==
        << Field("index", "index", FALSE),
           Field("content", "content", FALSE),
           Field("finishReason", "finish_reason", TRUE),
           Field("finishMessage", "finish_message", TRUE),
           Field("safetyRatings", "safety_ratings", TRUE),
           Field("citationMetadata", "citation_metadata", TRUE) >>
    IN DeserializeStruct(value, fields,
        [i \in 1..Arity(value) |->
            LET k == KeyAt(value, fields, i)
                x == ValAt(value, i)
            IN IF k = "index" THEN DeserializeI32(x)
            ELSE IF k = "content" THEN ContentTypeFromSlice(x, preserve)
            ELSE IF k = "finishReason"
            THEN DeserializeOption(x,
                     DeserializeUnitVariant(x, ResponseTypeFinishReason))
            ELSE IF k = "finishMessage"
            THEN DeserializeOption(x, DeserializeString(x))
            ELSE IF k = "safetyRatings"
            THEN DeserializeOption(x,
                     DeserializeVec(x, [j \in 1..Arity(x) |-> ResponseTypeSafetyRating(x.v[j])]))
            ELSE DeserializeOption(x, ResponseTypeCitationMetadata(x))])

\* response_type::GenerateContentResponse, the type make_request decodes
ResponseTypeGenerateContentResponse(value, preserve) ==
    LET fields ==
        << Field("candidates", "candidates", FALSE) >>
    IN DeserializeStruct(value, fields,
        [i \in 1..Arity(value) |->
            LET k == KeyAt(value, fields, i)
                x == ValAt(value, i)
            IN DeserializeVec(x, [j \in 1..Arity(x) |-> GenerateContentCandidate(x.v[j], preserve)])])

(* Response bodies *)

HiContent ==
    JObj(<< <<"role", JStr("model")>>,
            <<"parts", JArr(<<JObj(<<<<"text", JStr("hi")>>>>)>>)>> >>)

ContentDocs ==
    { HiContent,
      JObj(<< <<"parts", JArr(<<JObj(<<<<"text", JStr("hi")>>>>)>>)>>,
              <<"role", JStr("model")>> >>),
      JObj(<< <<"role", JStr("model")>>, <<"parts", JArr(<<>>)>> >>),
      JObj(<< <<"role", JStr("model")>>,
              <<"parts", JArr(<<JObj(<<<<"other", JStr("hi")>>>>)>>)>> >>),
      JObj(<< <<"parts", JArr(<<>>)>> >>) }

RatingDoc ==
    JObj(<< <<"category", JStr("HARM_CATEGORY_HARASSMENT")>>,
            <<"probability", JStr("NEGLIGIBLE")>> >>)

\* what a candidate carries besides index and content
CandidateExtras ==
    { <<>>,
      << <<"finishReason", JStr("STOP")>> >>,
      << <<"finishReason", JStr("LANGUAGE")>> >>,
      << <<"safetyRatings", JArr(<<>>)>> >>,
      << <<"finishReason", JStr("STOP")>>,
         <<"safetyRatings", JArr(<<RatingDoc>>)>> >> }

CandidateDocs ==
    {JObj(<< <<"index", i>>, <<"content", c>> >> \o x) :
        i \in {JNum(0), JNum(-1)}, c \in ContentDocs, x \in CandidateExtras}
    \cup {JObj(<< <<"content", HiContent>>, <<"index", JNum(0)>> >>),
          JObj(<< <<"index", JNum(0)>> >>),
          JObj(<< <<"content", HiContent>> >>)}

UsageDoc ==
    JObj(<< <<"promptTokenCount", JNum(1)>>,
            <<"candidatesTokenCount", JNum(1)>>,
            <<"totalTokenCount", JNum(2)>> >>)

\* what a response carries besides candidates
ResponseExtras ==
    { <<>>,
      << <<"usageMetadata", UsageDoc>> >>,
      << <<"usageMetadata", JObj(<<<<"totalTokenCount", JNum(2)>>>>)>> >>,
      << <<"promptFeedback", JNull>> >>,
      << <<"usageMetadata", UsageDoc>>,
         <<"promptFeedback",
           JObj(<< <<"blockReason", JStr("SAFETY")>>,
                   <<"safetyRatings", JArr(<<RatingDoc>>)>> >>)>> >> }

ResponseBodies ==
    {JObj(<< <<"candidates", JArr(cs)>> >> \o x) :
        cs \in SeqsUpTo(CandidateDocs, MaxCandidates), x \in ResponseExtras}
    \cup {JObj(x) : x \in ResponseExtras}
    \cup {JObj(<< <<"candidates", JNull>> >>), JArr(<<>>), JNull}

InitResponse ==
    /\ preserve_order \in BOOLEAN
    /\ hash_order = "asc"
    /\ pc = "body"
    /\ part = NoPart
    /\ wire \in ResponseBodies
    /\ result = NoResult
    /\ StreamIdle
    /\ ClientIdle

\* GenerativeModel::generate_content, from the body of the response on
generate_content ==
    /\ pc = "body"
    /\ result' = ResponsesGenerateContentResponse(wire, preserve_order)
    /\ pc' = "generate_content"
    /\ UNCHANGED <<part, wire, buildVars, clientVars, streamVars>>

\* make_request, from the body of the response on
make_request ==
    /\ pc = "body"
    /\ result' = ResponseTypeGenerateContentResponse(wire, preserve_order)
    /\ pc' = "make_request"
    /\ UNCHANGED <<part, wire, buildVars, clientVars, streamVars>>

NextResponse == generate_content \/ make_request

SpecResponse == InitResponse /\ [][NextResponse]_vars

-----------------------------------------------------------------------------
(* The client: options, GenerativeModel, request and URL building.         *)
(* A String is the sequence of its pieces, format! and push_str join       *)
(* pieces.  The piece "/" is one slash; no piece of a model name or of an  *)
(* api key holds a slash or any of : ? &                                 *)

MaxNameLen == 2

\* str::contains(char)
Contains(str, piece) == \E i \in 1..Len(str) : str[i] = piece

\* Option::unwrap_or / unwrap_or_default with the default d of the type
UnwrapOr(opt, d) == IF opt.some THEN opt.v ELSE d

\* #[default] of enum ApiVersion
ApiVersionDefault == "V1Beta"

ApiVersion_to_str(v) == IF v = "V1" THEN <<"v1">> ELSE <<"v1beta">>

Task_to_str(task) ==
    IF task = "GenerateContent" THEN <<"generateContent">>
    ELSE IF task = "StreamGenerateContent" THEN <<"streamGenerateContent">>
    ELSE IF task = "CountTokens" THEN <<"countTokens">>
    ELSE IF task = "EmbedContent" THEN <<"embedContent">>
    ELSE <<"batchEmbedContents">>

RequestOptions(api_version, base_url) ==
    [timeout |-> None, api_version |-> api_version, api_client |-> None,
     base_url |-> base_url, custom_headers |-> None]

\* impl Default for RequestOptions
RequestOptionsDefault ==
    RequestOptions(Some(ApiVersionDefault),
                   Some(<<"https://generativelanguage.googleapis.com">>))

ModelParams(name, cfg) ==
    [model |-> name, safety_settings |-> cfg.safety_settings,
     generation_config |-> cfg.generation_config, tools |-> cfg.tools,
     tool_config |-> cfg.tool_config,
     system_instruction |-> cfg.system_instruction,
     cached_content |-> cfg.cached_content]

\* ModelParams::new
ModelParamsNew(name) ==
    [model |-> name, safety_settings |-> None, generation_config |-> None,
     tools |-> None, tool_config |-> None, system_instruction |-> None,
     cached_content |-> None]

\* a constructor that prefixes every name
MutGenerativeModelNewPrefixesAll(api_key, model_params, request_options) ==
    [api_key |-> api_key,
     model |-> <<"models", "/">> \o model_params.model,
     generation_config |-> model_params.generation_config,
     safety_settings |-> model_params.safety_settings,
     request_options |-> UnwrapOr(request_options, RequestOptionsDefault),
     tools |-> model_params.tools,
     tool_config |-> model_params.tool_config,
     system_instruction |-> model_params.system_instruction,
     cached_content |-> model_params.cached_content]

\* GenerativeModel::new
GenerativeModelNew(api_key, model_params, request_options) ==
    [api_key |-> api_key,
     model |-> IF Contains(model_params.model, "/") THEN model_params.model
               ELSE <<"models", "/">> \o model_params.model,
     generation_config |-> model_params.generation_config,
     safety_settings |-> model_params.safety_settings,
     request_options |-> UnwrapOr(request_options, RequestOptionsDefault),
     tools |-> model_params.tools,
     tool_config |-> model_params.tool_config,
     system_instruction |-> model_params.system_instruction,
     cached_content |-> model_params.cached_content]

\* a preparation that sends the parts newest first and forgets the system
\* instruction
Mut_prepare_request(self, requests) ==
    [model |-> self.model,
     contents |-> <<[role |-> "User",
                     parts |-> [i \in 1..Len(requests) |->
                                   requests[Len(requests) + 1 - i]]]>>,
     generation_config |-> self.generation_config,
     safety_settings |-> self.safety_settings,
     tools |-> self.tools,
     tool_config |-> self.tool_config,
     system_instruction |-> None,
     cached_content |-> self.cached_content]

\* GenerativeModel::_prepare_request
prepare_request(self, requests) ==
    [model |-> self.model,
     contents |-> <<[role |-> "User", parts |-> requests]>>,
     generation_config |-> self.generation_config,
     safety_settings |-> self.safety_settings,
     tools |-> self.tools,
     tool_config |-> self.tool_config,
     system_instruction |-> self.system_instruction,
     cached_content |-> self.cached_content]

\* a URL that names the streaming task and leaves the suffix out
Mut_make_model_request_url(self, task, stream) ==
    LET api_version == IF self.request_options.api_version.some
                       THEN ApiVersion_to_str(self.request_options.api_version.v)
                       ELSE <<>>
        base_url == UnwrapOr(self.request_options.base_url, <<>>)
    IN base_url \o <<"/">> \o api_version \o <<"/">> \o self.model \o <<":">>
       \o (IF stream THEN Task_to_str("StreamGenerateContent")
           ELSE Task_to_str(task))
       \o <<"?key=">> \o self.api_key

\* the URL GenerativeModel::_make_model_request posts to
make_model_request_url(self, task, stream) ==
    LET api_version == IF self.request_options.api_version.some
                       THEN ApiVersion_to_str(self.request_options.api_version.v)
                       ELSE <<>>
        base_url == UnwrapOr(self.request_options.base_url, <<>>)
        url == base_url \o <<"/">> \o api_version \o <<"/">> \o self.model
               \o <<":">> \o Task_to_str(task) \o <<"?key=">> \o self.api_key
    IN IF stream THEN url \o <<"&alt=sse">> ELSE url

\* the URL get_model_list gets
get_model_list_url(api_key, request_options) ==
    LET options == UnwrapOr(request_options, RequestOptionsDefault)
        api_version ==
            ApiVersion_to_str(UnwrapOr(options.api_version, ApiVersionDefault))
        base_url == UnwrapOr(options.base_url, <<>>)
    IN base_url \o <<"/">> \o api_version \o <<"/", "models", "?key=">>
       \o api_key

\* the URL get_model_info gets
get_model_info_url(api_key, name, request_options) ==
    LET options == UnwrapOr(request_options, RequestOptionsDefault)
        api_version ==
            ApiVersion_to_str(UnwrapOr(options.api_version, ApiVersionDefault))
        base_url == UnwrapOr(options.base_url, <<>>)
    IN base_url \o <<"/">> \o api_version \o <<"/", "models", "/">> \o name
       \o <<"?key=">> \o api_key

\* constants::request, which methods/request.rs imports: the base URL its
\* doc comment names, and a version whose text stands for itself
DEFAULT_BASE_URL == <<"https://generativelanguage.googleapis.com">>
DEFAULT_API_VERSION == <<"DEFAULT_API_VERSION">>

\* the URL make_request posts to; request_options is the RequestOptions of
\* request_types.rs, whose api_version is a String
make_request_url(name, task, api_key, stream, request_options) ==
    LET base_url == IF request_options.some
                    THEN UnwrapOr(request_options.v.base_url, DEFAULT_BASE_URL)
                    ELSE DEFAULT_BASE_URL
        api_version ==
            IF request_options.some
            THEN UnwrapOr(request_options.v.api_version, DEFAULT_API_VERSION)
            ELSE DEFAULT_API_VERSION
    IN base_url \o <<"/">> \o api_version \o <<"/">> \o name \o <<":">>
       \o Task_to_str(task) \o <<"?key=">> \o api_key
       \o (IF stream THEN <<"&alt=sse">> ELSE <<>>)

\* an HTTP request as the server sees it
Request(by, method, url) == [by |-> by, method |-> method, url |-> url]

(* types::model::Model and ListModelResponse *)

DeserializeF32(value) ==
    IF value.kind = "num" THEN Ok(value.v)
    ELSE Err("invalid type: expected f32")

Model(value) ==
    LET fields ==
        << Field("name", "name", FALSE),
           Field("baseModelId", "base_model_id", TRUE),
           Field("version", "version", FALSE),
           Field("displayName", "display_name", FALSE),
           Field("description", "description", FALSE),
           Field("inputTokenLimit", "input_token_limit", FALSE),
           Field("outputTokenLimit", "output_token_limit", FALSE),
           Field("supportedGenerationMethods",
                 "supported_generation_methods", FALSE),
           Field("temperature", "temperature", TRUE),
           Field("maxTemperature", "max_temperature", TRUE),
           Field("topP", "top_p", TRUE),
           Field("topK", "top_k", TRUE) >>
    IN DeserializeStruct(value, fields,
        [i \in 1..Arity(value) |->
            LET k == KeyAt(value, fields, i)
                x == ValAt(value, i)
            IN IF k \in {"name", "version", "displayName", "description"}
            THEN DeserializeString(x)
            ELSE IF k = "baseModelId"
            THEN DeserializeOption(x, DeserializeString(x))
            ELSE IF k \in {"inputTokenLimit", "outputTokenLimit"}
            THEN DeserializeU32(x)
            ELSE IF k = "supportedGenerationMethods"
            THEN DeserializeVec(x,
                     [j \in 1..Arity(x) |-> DeserializeString(x.v[j])])
            ELSE IF k = "topK" THEN DeserializeOption(x, DeserializeU32(x))
            ELSE DeserializeOption(x, DeserializeF32(x))])

ListModelResponse(value) ==
    LET fields == << Field("models", "models", FALSE) >>
    IN DeserializeStruct(value, fields,
        [i \in 1..Arity(value) |->
            DeserializeVec(ValAt(value, i),
                [j \in 1..Arity(ValAt(value, i)) |->
                    Model(ValAt(value, i).v[j])])])

(* Inputs of the client *)

ApiKeys == {<<"KEY">>}

ModelNames == SeqsUpTo({"g", "/"}, MaxNameLen)

\* the defaults a ModelParams carries besides the name: none, or all six
ModelDefaults ==
    { [safety_settings |-> None, generation_config |-> None, tools |-> None,
       tool_config |-> None, system_instruction |-> None,
       cached_content |-> None],
      [safety_settings |-> Some(<<"BLOCK_NONE">>),
       generation_config |-> Some([temperature |-> 1]),
       tools |-> Some(<<"f">>),
       tool_config |-> Some("AUTO"),
       system_instruction |-> Some([role |-> "System",
                                    parts |-> <<TextPart("hi")>>]),
       cached_content |-> Some("cachedContents/1")] }

ModelParamsInputs ==
    {ModelParams(n, d) : n \in ModelNames, d \in ModelDefaults}

RequestOptionsInputs ==
    {None}
    \cup {Some(RequestOptions(v, b)) :
            v \in {None, Some("V1"), Some("V1Beta")},
            b \in {None, Some(<<"http://localhost">>)}}

\* Option<request_types::RequestOptions>
RequestTypesOptionsInputs ==
    {None}
    \cup {Some(RequestOptions(v, b)) :
            v \in {None, Some(<<"v1">>)},
            b \in {None, Some(<<"http://localhost">>)}}

\* the parts handed to generate_content
RequestParts == {<<TextPart("")>>, <<TextPart("hi"), TextPart("")>>}

\* the parts handed to generate_content_stream
StreamRequestParts == {<<TextPart("hi"), TextPart("")>>}

ModelDoc ==
    JObj(<< <<"name", JStr("models/g")>>, <<"version", JStr("1")>>,
            <<"displayName", JStr("G")>>, <<"description", JStr("")>>,
            <<"inputTokenLimit", JNum(1)>>, <<"outputTokenLimit", JNum(1)>>,
            <<"supportedGenerationMethods",
              JArr(<<JStr("generateContent")>>)>> >>)

\* bodies the model endpoints answer with: a model, a list of models, an
\* error object
LookupBodies ==
    { ModelDoc,
      JObj(<< <<"models", JArr(<<ModelDoc>>)>> >>),
      JObj(<< <<"error", JObj(<< <<"code", JNum(404)>> >>)>> >>) }

\* the model of test_generate_content_stream
TestModel ==
    GenerativeModelNew(<<"KEY">>, ModelParamsNew(<<"gemini-1.5-flash">>), None)

-----------------------------------------------------------------------------
(* GenerativeModel::generate_content_stream *)

\* Bytes: "a" is an ASCII payload byte, "\n" the newline, "C3" "A9" the two
\* bytes of one two-byte UTF-8 character.
Bytes == {"a", "\n", "C3", "A9"}

\* std::str::from_utf8(&item).is_ok()
RECURSIVE Utf8Valid(_)
Utf8Valid(bytes) ==
    IF bytes = <<>> THEN TRUE
    ELSE IF Head(bytes) \in {"a", "\n"} THEN Utf8Valid(Tail(bytes))
    ELSE IF Head(bytes) = "C3"
    THEN /\ Len(bytes) >= 2
         /\ bytes[2] = "A9"
         /\ Utf8Valid(SubSeq(bytes, 3, Len(bytes)))
    ELSE FALSE

\* str.split("\n\n"): the pieces between the matches of the delimiter, found
\* from the left and not overlapping; `cur` is the piece being read
RECURSIVE SplitFrom(_, _)
SplitFrom(str, cur) ==
    IF str = <<>> THEN <<cur>>
    ELSE IF Len(str) >= 2 /\ str[1] = "\n" /\ str[2] = "\n"
    THEN <<cur>> \o SplitFrom(SubSeq(str, 3, Len(str)), <<>>)
    ELSE SplitFrom(Tail(str), Append(cur, Head(str)))

Split(str) == SplitFrom(str, <<>>)

ChunkItem(bytes) == [ok |-> TRUE, bytes |-> bytes]
ChunkFailure == [ok |-> FALSE]

ChunkBytes == UNION {[1..k -> Bytes] : k \in 1..MaxChunkLen}

TransportItems == {ChunkItem(b) : b \in ChunkBytes} \cup {ChunkFailure}

CodecIdle ==
    /\ preserve_order = FALSE
    /\ hash_order = "asc"
    /\ pc = "idle"
    /\ part = NoPart
    /\ wire = NoWire
    /\ result = NoResult

InitStream ==
    /\ transport \in [send : BOOLEAN,
                      body : SeqsUpTo(TransportItems, MaxChunks)]
    /\ printed = <<>>
    /\ consumed = <<>>
    /\ ret = "start"
    /\ CodecIdle
    /\ model = TestModel
    /\ request = NoRequest
    /\ sent = <<>>

\* generate_content_stream up to its first await: _prepare_request, then
\* self._make_model_request(Task::GenerateContent, content, true).await?
MakeModelRequest ==
    /\ ret = "start"
    /\ pc = "idle"
    /\ model # NoModel
    /\ \E requests \in StreamRequestParts :
           request' = prepare_request(model, requests)
    /\ sent' = Append(sent,
                      Request("generate_content_stream", "POST",
                              make_model_request_url(model, "GenerateContent",
                                                     TRUE)))
    /\ ret' = IF transport.send THEN "reading" ELSE "Err"
    /\ UNCHANGED <<transport, printed, consumed, codecVars, buildVars, model>>

\* generate_content up to its first await: _prepare_request, then
\* self._make_model_request(Task::GenerateContent, content, false).await?
GenerateContentSend ==
    /\ ret = "start"
    /\ pc = "idle"
    /\ model # NoModel
    /\ \E requests \in RequestParts :
           request' = prepare_request(model, requests)
    /\ sent' = Append(sent,
                      Request("generate_content", "POST",
                              make_model_request_url(model, "GenerateContent",
                                                     FALSE)))
    /\ pc' = IF transport.send THEN "sent" ELSE "generate_content"
    /\ result' = IF transport.send THEN result
                 ELSE Err("reqwest::Error (send)")
    /\ UNCHANGED <<part, wire, streamVars, buildVars, model>>

\* the bytes of a body whose chunks all arrive
RECURSIVE BodyBytes(_)
BodyBytes(items) ==
    IF items = <<>> THEN <<>>
    ELSE Head(items).bytes \o BodyBytes(Tail(items))

\* serde_json::from_slice on text over Bytes.  A JSON document starts with
\* one of { [ " - t f n or a digit, so no such text is one: the parse fails
\* at the end of a blank body and at the first other byte otherwise.
from_slice(bytes) ==
    IF \A i \in 1..Len(bytes) : bytes[i] = "\n"
    THEN Err("EOF while parsing a value")
    ELSE Err("expected value")

\* a call that asks again when the body breaks off
MutGenerateContentJsonRetries ==
    /\ pc = "sent"
    /\ LET body == transport.body
           bad == {i \in 1..Len(body) : ~body[i].ok}
       IN IF bad = {}
          THEN /\ transport' = [transport EXCEPT !.body = <<>>]
               /\ result' = from_slice(BodyBytes(body))
               /\ pc' = "generate_content"
               /\ sent' = sent
          ELSE /\ transport' = [transport EXCEPT
                                   !.body = SubSeq(body, Min(bad) + 1,
                                                   Len(body))]
               /\ result' = result
               /\ pc' = "sent"
               /\ sent' = Append(sent, sent[Len(sent)])
    /\ UNCHANGED <<part, wire, printed, consumed, ret, buildVars, model,
                   request>>

\* generate_content after the response has come: response.json().await?
\* reads the body to its end or to the first chunk that fails
GenerateContentJson ==
    /\ pc = "sent"
    /\ LET body == transport.body
           bad == {i \in 1..Len(body) : ~body[i].ok}
       IN IF bad = {}
          THEN /\ transport' = [transport EXCEPT !.body = <<>>]
               /\ result' = from_slice(BodyBytes(body))
          ELSE /\ transport' = [transport EXCEPT
                                   !.body = SubSeq(body, Min(bad) + 1,
                                                   Len(body))]
               /\ result' = Err("reqwest::Error (body)")
    /\ pc' = "generate_content"
    /\ UNCHANGED <<part, wire, printed, consumed, ret, buildVars, clientVars>>

\* stream.next().await is None: the loop ends, Ok(())
StreamEnd ==
    /\ ret = "reading"
    /\ transport.body = <<>>
    /\ ret' = "Ok"
    /\ UNCHANGED <<transport, printed, consumed, codecVars, buildVars,
                   clientVars>>

\* let item = item?; on Some(Err(_))
MutChunkErrorSkips ==
    /\ ret = "reading"
    /\ transport.body # <<>>
    /\ ~Head(transport.body).ok
    /\ transport' = [transport EXCEPT !.body = Tail(@)]
    /\ ret' = "reading"
    /\ UNCHANGED <<printed, consumed, codecVars, buildVars, clientVars>>

ChunkError ==
    /\ ret = "reading"
    /\ transport.body # <<>>
    /\ ~Head(transport.body).ok
    /\ transport' = [transport EXCEPT !.body = Tail(@)]
    /\ ret' = "Err"
    /\ UNCHANGED <<printed, consumed, codecVars, buildVars, clientVars>>

\* a loop that converts the chunk lossily and goes on
MutUtf8ErrorLossy ==
    /\ ret = "reading"
    /\ transport.body # <<>>
    /\ Head(transport.body).ok
    /\ ~Utf8Valid(Head(transport.body).bytes)
    /\ transport' = [transport EXCEPT !.body = Tail(@)]
    /\ consumed' = Append(consumed, Head(transport.body).bytes)
    /\ printed' = printed \o Split(Head(transport.body).bytes)
    /\ ret' = "reading"
    /\ UNCHANGED <<codecVars, buildVars, clientVars>>

\* std::str::from_utf8(&item)? on a chunk that is not UTF-8 by itself
Utf8Error ==
    /\ ret = "reading"
    /\ transport.body # <<>>
    /\ Head(transport.body).ok
    /\ ~Utf8Valid(Head(transport.body).bytes)
    /\ transport' = [transport EXCEPT !.body = Tail(@)]
    /\ consumed' = Append(consumed, Head(transport.body).bytes)
    /\ ret' = "Err"
    /\ UNCHANGED <<printed, codecVars, buildVars, clientVars>>

\* for p in str.split("\n\n") { dbg!(p); }
MutPrintChunkNewestFirst(bytes) == Split(bytes) \o printed

PrintChunk(bytes) == printed \o Split(bytes)

MutChunkAfterClose ==
    /\ ret \in {"reading", "Err"}
    /\ transport.body # <<>>
    /\ Head(transport.body).ok
    /\ Utf8Valid(Head(transport.body).bytes)
    /\ transport' = [transport EXCEPT !.body = Tail(@)]
    /\ consumed' = Append(consumed, Head(transport.body).bytes)
    /\ printed' = PrintChunk(Head(transport.body).bytes)
    /\ ret' = ret
    /\ UNCHANGED <<codecVars, buildVars, clientVars>>

Chunk ==
    /\ ret = "reading"
    /\ transport.body # <<>>
    /\ Head(transport.body).ok
    /\ Utf8Valid(Head(transport.body).bytes)
    /\ transport' = [transport EXCEPT !.body = Tail(@)]
    /\ consumed' = Append(consumed, Head(transport.body).bytes)
    /\ printed' = PrintChunk(Head(transport.body).bytes)
    /\ ret' = ret
    /\ UNCHANGED <<codecVars, buildVars, clientVars>>

NextStream ==
    \/ MakeModelRequest \/ StreamEnd \/ ChunkError \/ Utf8Error \/ Chunk
    \/ GenerateContentSend \/ GenerateContentJson

SpecStream == InitStream /\ [][NextStream]_vars

------------------------------------------------------------------------------
(* The client at work: a GoogleGenerativeAI, the model it hands out, the   *)
(* calls on that model, the lookups and make_request                       *)

MaxCalls == 2

\* responses a call of the client meets: no body, one that breaks off, one
\* of a blank line, one cut inside a character
ClientTransports ==
    [send : BOOLEAN,
     body : {<<>>, <<ChunkFailure>>, <<ChunkItem(<<"\n">>)>>,
             <<ChunkItem(<<"C3">>)>>}]

\* bodies make_request meets: a response without candidates, and an object
\* without the candidates field
MakeRequestBodies ==
    {JObj(<< <<"candidates", JArr(<<>>)>> >>), JObj(<<>>)}

InitClient ==
    /\ preserve_order = FALSE
    /\ hash_order = "asc"
    /\ pc = "new"
    /\ part = NoPart
    /\ wire = NoWire
    /\ result = NoResult
    /\ transport \in ClientTransports
    /\ printed = <<>>
    /\ consumed = <<>>
    /\ ret = "start"
    /\ ClientIdle

\* GoogleGenerativeAI::get_generative_model
get_generative_model ==
    /\ pc = "new"
    /\ \E api_key \in ApiKeys, model_params \in ModelParamsInputs,
          request_options \in RequestOptionsInputs :
           model' = GenerativeModelNew(api_key, model_params, request_options)
    /\ pc' = "idle"
    /\ UNCHANGED <<part, wire, result, streamVars, buildVars, request, sent>>

\* a call on the model has returned and the caller goes on to the next
CallReturns ==
    /\ \/ pc = "generate_content"
       \/ ret \in {"Ok", "Err"}
    /\ Len(sent) < MaxCalls
    /\ pc' = "idle"
    /\ ret' = "start"
    /\ result' = NoResult
    /\ printed' = <<>>
    /\ consumed' = <<>>
    /\ transport' \in ClientTransports
    /\ UNCHANGED <<part, wire, buildVars, clientVars>>

\* what get_model_list returns for a body that came
get_model_list_result(send, body) ==
    IF ~send THEN Err("reqwest::Error (send)")
    ELSE ListModelResponse(body)

\* what get_model_info returns for a body that came, or how it ends
get_model_info_result(send, body) ==
    IF ~send THEN Err("reqwest::Error (send)")
    ELSE IF Model(body).tag = "Ok" THEN Ok(Model(body).val)
    ELSE Panic("Result::unwrap on Err")

\* GoogleGenerativeAI::get_model_list
get_model_list ==
    /\ pc = "new"
    /\ \E api_key \in ApiKeys, request_options \in RequestOptionsInputs,
          body \in LookupBodies :
           /\ sent' = Append(sent,
                             Request("get_model_list", "GET",
                                     get_model_list_url(api_key,
                                                        request_options)))
           /\ wire' = IF transport.send THEN body ELSE wire
           /\ result' = get_model_list_result(transport.send, body)
    /\ pc' = "get_model_list"
    /\ UNCHANGED <<part, streamVars, buildVars, model, request>>

\* GoogleGenerativeAI::get_model_info
get_model_info ==
    /\ pc = "new"
    /\ \E api_key \in ApiKeys, name \in ModelNames,
          request_options \in RequestOptionsInputs, body \in LookupBodies :
           /\ sent' = Append(sent,
                             Request("get_model_info", "GET",
                                     get_model_info_url(api_key, name,
                                                        request_options)))
           /\ wire' = IF transport.send THEN body ELSE wire
           /\ result' = get_model_info_result(transport.send, body)
    /\ pc' = "get_model_info"
    /\ UNCHANGED <<part, streamVars, buildVars, model, request>>

\* make_request up to the response: the URL, the post and send().await?
MakeRequestSend ==
    /\ pc = "new"
    /\ \E api_key \in ApiKeys, name \in ModelNames, stream \in BOOLEAN,
          task \in {"GenerateContent", "StreamGenerateContent"},
          request_options \in RequestTypesOptionsInputs,
          body \in MakeRequestBodies :
           /\ sent' = Append(sent,
                             Request(IF stream THEN "make_request (stream)"
                                     ELSE "make_request",
                                     "POST",
                                     make_request_url(name, task, api_key,
                                                      stream,
                                                      request_options)))
           /\ wire' = IF transport.send THEN body ELSE wire
    /\ pc' = IF transport.send THEN "body" ELSE "make_request"
    /\ result' = IF transport.send THEN result
                 ELSE Err("reqwest::Error (send)")
    /\ UNCHANGED <<part, streamVars, buildVars, model, request>>

NextClient ==
    \/ get_generative_model
    \/ GenerateContentSend \/ GenerateContentJson
    \/ MakeModelRequest \/ StreamEnd \/ ChunkError \/ Utf8Error \/ Chunk
    \/ CallReturns
    \/ get_model_list \/ get_model_info
    \/ MakeRequestSend \/ make_request

SpecClient == InitClient /\ [][NextClient]_vars

-----------------------------------------------------------------------------
(* What generate_content_stream tells its caller *)

\* The error the call returned: every error of the function comes from a
\* `?`, on _make_model_request, on the stream item or on from_utf8.
ErrorReturned ==
    IF ret # "Err" THEN "none"
    ELSE IF ~transport.send THEN "reqwest::Error (send)"
    ELSE IF consumed # <<>> /\ ~Utf8Valid(consumed[Len(consumed)])
    THEN "Utf8Error"
    ELSE "reqwest::Error (chunk)"

\* Errors reported to the caller so far: the Err of the Result, if any.
Reported == IF ret = "Err" THEN <<ErrorReturned>> ELSE <<>>

\* Response objects handed to the caller so far.  The call returns
\* Result<()>, takes no callback or channel and is no Stream: the pieces go
\* to dbg! only.
Delivered == <<>>

\* Bytes the reader keeps from one chunk to the next: the loop body holds
\* item and str, both dropped at the end of the iteration, and nothing else.
Buffer == <<>>

\* the call has returned
Closed == ret \in {"Ok", "Err"}

-----------------------------------------------------------------------------
(* The wire contract of a Part, as the claims state it *)

Discriminators ==
    <<"text", "inlineData", "functionCall", "functionResponse", "fileData">>

DiscriminatorOf(p) ==
    IF p.variant = "TextPart" THEN "text"
    ELSE IF p.variant = "InlineDataPart" THEN "inlineData"
    ELSE IF p.variant = "FunctionCallPart" THEN "functionCall"
    ELSE IF p.variant = "FunctionResponsePart" THEN "functionResponse"
    ELSE "fileData"

DiscriminatorsIn(doc) == Keys(doc.v) \cap Range(Discriminators)

\* the discriminator key of doc that comes first in the fixed order
EarliestDiscriminator(doc) ==
    Discriminators[CHOOSE i \in 1..5 :
        /\ Discriminators[i] \in Keys(doc.v)
        /\ \A j \in 1..(i - 1) : Discriminators[j] \notin Keys(doc.v)]

DecodeUnder(key, value) ==
    IF key = "text" THEN DecodeText(value)
    ELSE IF key = "inlineData" THEN DecodeInlineData(value)
    ELSE IF key = "functionCall" THEN DecodeFunctionCall(value)
    ELSE IF key = "functionResponse" THEN DecodeFunctionResponse(value)
    ELSE DecodeFileData(value)

IsStrField(obj, k) == ContainsKey(obj, k) /\ Get(obj, k).kind = "str"
IsObjField(obj, k) == ContainsKey(obj, k) /\ Get(obj, k).kind = "obj"

\* the shape the wire format gives the value under a discriminator key
WellFormedUnder(key, value) ==
    IF key = "text" THEN value.kind = "str"
    ELSE /\ value.kind = "obj"
         /\ IF key = "inlineData"
            THEN IsStrField(value.v, "mimeType") /\ IsStrField(value.v, "data")
            ELSE IF key = "functionCall"
            THEN IsStrField(value.v, "name") /\ IsObjField(value.v, "args")
            ELSE IF key = "functionResponse"
            THEN IsStrField(value.v, "name")
                 /\ IsObjField(value.v, "response")
            ELSE IsStrField(value.v, "mimeType")
                 /\ IsStrField(value.v, "fileUri")

\* a HashMap holds exactly the entries of a JSON object
SameMapping(m, obj) ==
    /\ DOMAIN m = Keys(obj.v)
    /\ \A k \in DOMAIN m : m[k] = Get(obj.v, k)

\* the fields of a Part are the values found in the JSON value
FieldsUnder(p, value) ==
    IF p.variant = "TextPart" THEN value = JStr(p.text)
    ELSE /\ value.kind = "obj"
         /\ IF p.variant = "InlineDataPart"
            THEN /\ IsStrField(value.v, "mimeType")
                 /\ IsStrField(value.v, "data")
                 /\ Get(value.v, "mimeType") = JStr(p.mime_type)
                 /\ Get(value.v, "data") = JStr(p.data)
            ELSE IF p.variant = "FunctionCallPart"
            THEN /\ IsStrField(value.v, "name")
                 /\ IsObjField(value.v, "args")
                 /\ Get(value.v, "name") = JStr(p.name)
                 /\ SameMapping(p.args, Get(value.v, "args"))
            ELSE IF p.variant = "FunctionResponsePart"
            THEN /\ IsStrField(value.v, "name")
                 /\ IsObjField(value.v, "response")
                 /\ Get(value.v, "name") = JStr(p.name)
                 /\ SameMapping(p.response, Get(value.v, "response"))
            ELSE /\ IsStrField(value.v, "mimeType")
                 /\ IsStrField(value.v, "fileUri")
                 /\ Get(value.v, "mimeType") = JStr(p.mime_type)
                 /\ Get(value.v, "fileUri") = JStr(p.file_uri)

FieldKeysOf(p) ==
    IF p.variant = "InlineDataPart" THEN {"mimeType", "data"}
    ELSE IF p.variant = "FunctionCallPart" THEN {"name", "args"}
    ELSE IF p.variant = "FunctionResponsePart" THEN {"name", "response"}
    ELSE {"mimeType", "fileUri"}

\* the JSON object the wire format prescribes for a Part
WireShapeOf(p, doc) ==
    /\ doc.kind = "obj"
    /\ Keys(doc.v) = {DiscriminatorOf(p)}
    /\ FieldsUnder(p, Get(doc.v, DiscriminatorOf(p)))
    /\ p.variant # "TextPart"
       => Keys(Get(doc.v, DiscriminatorOf(p)).v) = FieldKeysOf(p)

RECURSIVE Concat(_)
Concat(chunks) ==
    IF chunks = <<>> THEN <<>> ELSE Head(chunks) \o Concat(Tail(chunks))

-----------------------------------------------------------------------------
(* Claims *)

\* C1: round trip of the Part codec: decoding the JSON value produced by
\* encoding a Part v succeeds and returns a Part equal to v.
C1_RoundTrip ==
    pc = "part_decoded" => result = Ok(part)

\* C2: chunk boundaries carry no meaning: a stream read to its end gives the
\* same pieces however it was cut into chunks, that is, the pieces of the
\* stream taken as one chunk.
C2_ChunkingIrrelevant ==
    (ret = "Ok" /\ consumed # <<>>) => printed = Split(Concat(consumed))

\* C3: the encoder gives the wire shape: the encoded Part is an object whose
\* only top-level key is the discriminator key of the variant, with the
\* variant's fields under it.
C3_EncodeWireShape ==
    pc = "part_encoded" => WireShapeOf(part, wire)

\* C4: an object holding two or more discriminator keys decodes as the
\* variant of the key earliest in the order text, inlineData, functionCall,
\* functionResponse, fileData, whatever the order of the keys in the object.
C4_PriorityOrder ==
    (/\ pc = "wire_decoded"
     /\ wire.kind = "obj"
     /\ Cardinality(DiscriminatorsIn(wire)) >= 2)
    => result = DecodeUnder(EarliestDiscriminator(wire),
                            Get(wire.v, EarliestDiscriminator(wire)))

\* C5: a malformed value under the only discriminator key of an object makes
\* Decode return an error value; the caller is not aborted and gets no Part.
C5_MalformedIsError ==
    (/\ pc = "wire_decoded"
     /\ wire.kind = "obj"
     /\ Cardinality(DiscriminatorsIn(wire)) = 1
     /\ ~WellFormedUnder(EarliestDiscriminator(wire),
                         Get(wire.v, EarliestDiscriminator(wire))))
    => result.tag = "Err"

\* C6: Decode of a JSON value that is not an object (array, string, number,
\* boolean, null) returns the error "Expected JSON object" and no Part.
C6_NonObjectRejected ==
    (pc = "wire_decoded" /\ wire.kind # "obj")
    => result = Err("Expected JSON object")

C6_Witness ==
    /\ pc = "wire_decoded"
    /\ wire = JArr(<<JObj(<<<<"text", JStr("hi")>>>>)>>)
    /\ result.tag = "Err"

\* C7: Decode of an object holding none of the five discriminator keys (the
\* empty object, objects with unknown keys only) returns the error
\* "Invalid data structure." and no Part.
C7_UnknownShapeRejected ==
    (pc = "wire_decoded" /\ wire.kind = "obj" /\ DiscriminatorsIn(wire) = {})
    => result = Err("Invalid data structure.")

C7_Witness ==
    /\ pc = "wire_decoded"
    /\ wire.kind = "obj"
    /\ Keys(wire.v) = {"other", "TextPart"}
    /\ result = Err("Invalid data structure.")

\* C8: Decode never fabricates a Part: a returned Part comes from an object
\* holding the variant's discriminator key, and each of its fields is the
\* value found under that key.
C8_NoFabrication ==
    (pc = "wire_decoded" /\ result.tag = "Ok")
    => /\ wire.kind = "obj"
       /\ DiscriminatorOf(result.val) \in Keys(wire.v)
       /\ FieldsUnder(result.val, Get(wire.v, DiscriminatorOf(result.val)))

C8_Witness ==
    /\ pc = "wire_decoded"
    /\ result = Ok(InlineDataPart("image/png", "s"))
    /\ Len(wire.v) = 2

\* C9: a ContentType survives encode and decode: same role, same parts in
\* the same order and number.
C9_ContentRoundTrip ==
    pc = "content_decoded" => result = Ok(part)

\* C10: the map under args (functionCall) or response (functionResponse) is
\* decoded whole and unvalidated: a well-formed function payload under the
\* only discriminator key always decodes, and a decoded function Part holds
\* exactly the keys of the wire object, each with its wire value.
C10_FunctionMapsComplete ==
    (pc = "wire_decoded" /\ wire.kind = "obj")
    => /\ \A k \in {"functionCall", "functionResponse"} :
              (/\ DiscriminatorsIn(wire) = {k}
               /\ WellFormedUnder(k, Get(wire.v, k)))
              => result.tag = "Ok"
       /\ (result.tag = "Ok" /\ result.val.variant = "FunctionCallPart")
          => SameMapping(result.val.args,
                         Get(Get(wire.v, "functionCall").v, "args"))
       /\ (result.tag = "Ok" /\ result.val.variant = "FunctionResponsePart")
          => SameMapping(result.val.response,
                         Get(Get(wire.v, "functionResponse").v, "response"))

C10_Witness ==
    /\ pc = "wire_decoded"
    /\ result.tag = "Ok"
    /\ result.val.variant = "FunctionCallPart"
    /\ DOMAIN result.val.args = {"x", "y"}
    /\ result.val.args["x"] = JArr(<<>>)
    /\ result.val.args["y"] = JObj(<<>>)

-----------------------------------------------------------------------------
(* The event stream contract, as the claims state it *)

Last(seq) == seq[Len(seq)]
Front(seq) == SubSeq(seq, 1, Len(seq) - 1)

\* all bytes received so far
Received == Concat(consumed)

\* the payloads of a byte string that a delimiter terminates, in order
Payloads(str) == Front(Split(str))

\* the bytes after the last delimiter of a byte string
Fragment(str) == Last(Split(str))

\* The bytes "a", "C3", "A9" stand for the text of a JSON document; a payload
\* that is empty or holds only newlines is no JSON document (serde_json: EOF
\* while parsing a value).
IsDocument(payload) ==
    /\ Utf8Valid(payload)
    /\ \E i \in 1..Len(payload) : payload[i] # "\n"

WellFormedPayloads(str) == SelectSeq(Payloads(str), IsDocument)
MalformedPayloads(str) == SelectSeq(Payloads(str), LAMBDA p : ~IsDocument(p))

\* payloads without a newline that fit a chunk together with one newline
ShortPayloads ==
    {p \in UNION {[1..k -> Bytes \ {"\n"}] : k \in 1..(MaxChunkLen - 1)} :
        Utf8Valid(p)}

-----------------------------------------------------------------------------
(* Claims on the event stream reader *)

\* C11: a delimiter split across two chunks (payload and first newline in
\* one chunk, second newline in the next) gives no event while only the
\* first chunk has arrived and exactly one event, the payload, once the
\* second has; no empty or extra event for either chunk.
C11_SplitDelimiter ==
    \A p \in ShortPayloads :
        /\ consumed = <<p \o <<"\n">>>> => printed = <<>>
        /\ consumed = <<p \o <<"\n">>, <<"\n">>>> => printed = <<p>>

\* C12: one event per payload, delivered to the caller: when the stream is
\* done the caller has been handed exactly one response object for each
\* delimiter-terminated well-formed payload, none dropped, none twice.
C12_OneEventPerPayload ==
    ret = "Ok" => Delivered = WellFormedPayloads(Received)

IsPrefix(s, t) == Len(s) <= Len(t) /\ SubSeq(t, 1, Len(s)) = s

\* the chunks whose pieces were emitted: all but a last chunk that was
\* refused as not UTF-8
EmittedChunks ==
    IF ErrorReturned = "Utf8Error" THEN Front(consumed) ELSE consumed

\* a chunk without the delimiters the reader matched in it
StripDelimiters(str) == Concat(Split(str))

C14_MalformedEventReported ==
    ret \in {"reading", "Ok"}
    => Len(SelectSeq(Reported, LAMBDA e : e = "MalformedEvent"))
         = Len(MalformedPayloads(Received))

\* C15: truncation: at a clean end of the stream TruncatedStream is reported
\* exactly when bytes follow the last delimiter, and those bytes give no
\* event (stated for a stream that came as one chunk).
C15_Truncation ==
    ret = "Ok"
    => /\ (Fragment(Received) # <<>>)
            <=> (\E i \in 1..Len(Reported) : Reported[i] = "TruncatedStream")
       /\ Len(consumed) = 1 => printed = Payloads(Received)

\* the reader of the byte stream: it exists once the response has arrived,
\* waits for the next chunk inside the loop and is gone when the call returns
ReaderState ==
    IF ret = "start" \/ ~transport.send THEN "None"
    ELSE IF ret = "reading" THEN "AwaitingData"
    ELSE "Closed"

\* C17: reader life cycle: the reader starts in AwaitingData, emits only as
\* a step taken from AwaitingData, and Closed is absorbing: once the call
\* has returned nothing more is emitted and no chunk is taken.
C17_LifeCycle ==
    /\ [][(ReaderState = "None" /\ ReaderState' # "None")
            => ReaderState' = "AwaitingData"]_vars
    /\ [][printed' # printed => ReaderState = "AwaitingData"]_vars
    /\ [][ReaderState = "Closed"
            => UNCHANGED <<printed, consumed, transport, ret>>]_vars

C17_Witness ==
    /\ ReaderState = "Closed"
    /\ ErrorReturned = "Utf8Error"
    /\ transport.body # <<>>

\* the transport signalled no failure, and the chunks it would still yield
TransportClean ==
    /\ transport.send
    /\ ErrorReturned # "reqwest::Error (chunk)"
    /\ \A i \in 1..Len(transport.body) : transport.body[i].ok

WholeStream ==
    Received \o Concat([i \in 1..Len(transport.body) |->
                           transport.body[i].bytes])

\* C18: termination with success: a call that has finished on a stream the
\* transport delivered without failure, and whose bytes are well-formed
\* text, has finished with Ok.
C18_CleanEndSucceeds ==
    (Closed /\ TransportClean /\ Utf8Valid(WholeStream)) => ret = "Ok"

\* C19: a failed chunk fetch ends the stream: the step that meets the failure
\* closes the call with the error and leaves what was emitted as it is, and
\* after it no chunk is read and nothing emitted changes.
C19_TransportFailureCloses ==
    /\ [][(ret = "reading" /\ transport.body # <<>>
             /\ ~Head(transport.body).ok)
            => (ret' = "Err" /\ printed' = printed /\ consumed' = consumed)]_vars
    /\ [][ErrorReturned = "reqwest::Error (chunk)"
            => (ret' = "Err" /\ printed' = printed /\ consumed' = consumed)]_vars

C19_Witness ==
    /\ ErrorReturned = "reqwest::Error (chunk)"
    /\ consumed = <<<<"a", "\n">>>>
    /\ printed = <<<<"a", "\n">>>>
    /\ transport.body = <<>>

\* C20: pull-based delivery: an event that is complete in the bytes received
\* so far has been handed to the caller before the next chunk is fetched, so
\* the caller sees the first event without waiting for the end of the stream.
C20_DeliveredBeforeNextFetch ==
    (ret = "reading" /\ WellFormedPayloads(Received) # <<>>)
    => Len(Delivered) >= 1

-----------------------------------------------------------------------------
(* The response contract, as the claims state it *)

IsTextContent(c) ==
    /\ c.kind = "obj"
    /\ Keys(c.v) = {"role", "parts"}
    /\ Get(c.v, "role").kind = "str"
    /\ Get(c.v, "parts").kind = "arr"
    /\ \A i \in 1..Len(Get(c.v, "parts").v) :
           LET p == Get(c.v, "parts").v[i]
           IN p.kind = "obj" /\ Len(p.v) = 1 /\ p.v[1][1] = "text"
              /\ p.v[1][2].kind = "str"

\* a body that carries only candidates, each with only index and content
CandidatesOnly(doc) ==
    /\ doc.kind = "obj"
    /\ Keys(doc.v) = {"candidates"}
    /\ doc.v[1][2].kind = "arr"
    /\ \A i \in 1..Len(doc.v[1][2].v) :
           LET c == doc.v[1][2].v[i]
           IN /\ c.kind = "obj"
              /\ Keys(c.v) = {"index", "content"}
              /\ Get(c.v, "index").kind = "num"
              /\ Get(c.v, "index").v >= 0
              /\ IsTextContent(Get(c.v, "content"))

FirstContent(doc) == Get(doc.v[1][2].v[1].v, "content")

HasHi(doc) == doc.v[1][2].v # <<>> /\ FirstContent(doc) = HiContent

\* C16: a response body that carries only candidates (possibly none), each
\* with only index and content, decodes to a response object, whichever of
\* the two response types reads it; when the first candidate's content is
\* {"role":"model","parts":[{"text":"hi"}]} the first part of the first
\* candidate of the decoded response is TextPart with text "hi".
C16_CandidatesOnlyDecodes ==
    (pc \in {"generate_content", "make_request"} /\ CandidatesOnly(wire))
    => /\ result.tag = "Ok"
       /\ (HasHi(wire)
           => result.val.candidates[1].content.parts[1] = TextPart("hi"))

\* the same, of make_request's response type alone
C16_ResponseTypeDecodes ==
    (pc = "make_request" /\ CandidatesOnly(wire))
    => /\ result.tag = "Ok"
       /\ (HasHi(wire)
           => result.val.candidates[1].content.parts[1] = TextPart("hi"))

C16_Witness ==
    /\ pc = "make_request"
    /\ CandidatesOnly(wire)
    /\ HasHi(wire)
    /\ result.tag = "Ok"

-----------------------------------------------------------------------------
(* Keys the Part decoder does not know *)

TheDiscriminator(doc) == CHOOSE d \in DiscriminatorsIn(doc) : TRUE

\* C30: for every object holding exactly one discriminator key, well formed,
\* together with any number of other keys, Decode returns the Part it
\* returns for the object with those other keys removed, wherever the keys
\* stand in the object and in whichever order the Map yields them.
C30_UnknownKeysIgnored ==
    (/\ pc = "wire_decoded"
     /\ wire.kind = "obj"
     /\ Cardinality(DiscriminatorsIn(wire)) = 1
     /\ WellFormedUnder(TheDiscriminator(wire),
                        Get(wire.v, TheDiscriminator(wire))))
    => /\ result.tag = "Ok"
       /\ result = DecodeUnder(TheDiscriminator(wire),
                               Get(wire.v, TheDiscriminator(wire)))

C30_Witness ==
    /\ pc = "wire_decoded"
    /\ wire.kind = "obj"
    /\ Len(wire.v) = 2
    /\ wire.v[1][1] = "other"
    /\ wire.v[2][1] = "functionCall"
    /\ preserve_order
    /\ result.tag = "Ok"
    /\ result.val.variant = "FunctionCallPart"

-----------------------------------------------------------------------------
(* The reader's buffer and its text decoding *)

\* C24: after the reader has processed a chunk, its buffer holds exactly the
\* bytes that follow the last delimiter received so far; hence the buffer
\* holds no complete delimiter, and every payload that a delimiter has
\* terminated has been emitted or reported.
C24_BufferMinimal ==
    (ret = "reading" /\ consumed # <<>>)
    => /\ Buffer = Fragment(Received)
       /\ Split(Buffer) = <<Buffer>>
       /\ \A i \in 1..Len(Payloads(Received)) :
              \/ Payloads(Received)[i] \in Range(printed)
              \/ Reported # <<>>

\* C29: each chunk is validated as UTF-8 on its own: a chunk whose bytes are
\* not UTF-8 by themselves makes the call return an error in that step with
\* nothing of the chunk emitted; it is the first such chunk, and after the
\* error no chunk is read and nothing is emitted.
C29_Utf8ErrorStops ==
    /\ [][(/\ ret = "reading"
           /\ transport.body # <<>>
           /\ Head(transport.body).ok
           /\ ~Utf8Valid(Head(transport.body).bytes))
          => (ret' = "Err" /\ printed' = printed)]_vars
    /\ [](ErrorReturned = "Utf8Error"
          => \A i \in 1..(Len(consumed) - 1) : Utf8Valid(consumed[i]))
    /\ [](ret \in {"reading", "Ok"}
          => \A i \in 1..Len(consumed) : Utf8Valid(consumed[i]))
    /\ [][ErrorReturned = "Utf8Error"
          => (transport' = transport /\ printed' = printed
              /\ consumed' = consumed /\ ret' = ret)]_vars

C29_Witness ==
    /\ ErrorReturned = "Utf8Error"
    /\ consumed = << <<"C3">> >>
    /\ printed = <<>>
    /\ transport.body = <<ChunkItem(<<"A9">>)>>

(***************************************************************************)
(* One call, one request                                                   *)
(***************************************************************************)

\* a call has failed: the stream call returned Err, or generate_content did
CallFailed == ret = "Err" \/ result.tag = "Err"

\* a call has begun
CallBegun == ret # "start" \/ pc # "idle"

IsProperSuffix(s, t) ==
    Len(s) < Len(t) /\ SubSeq(t, Len(t) - Len(s) + 1, Len(t)) = s

\* C21: one call of generate_content or generate_content_stream issues
\* exactly one HTTP request; the request goes out when the call begins and
\* at no other time; after a send failure, a chunk read failure or a decode
\* failure nothing more is sent and nothing more is read; the body is only
\* ever read forward, so no chunk is requested again.
C21_NoRetry ==
    /\ [](Len(sent) <= 1)
    /\ [](CallBegun <=> Len(sent) = 1)
    /\ [][sent' # sent => ~CallBegun /\ CallBegun']_vars
    /\ [][CallFailed => sent' = sent /\ transport' = transport]_vars
    /\ [][transport'.send = transport.send
          /\ (transport'.body # transport.body
              => IsProperSuffix(transport'.body, transport.body))]_vars

\* generate_content lost its body at the first chunk, with a chunk still
\* unread, and one request on record
C21_Witness ==
    /\ pc = "generate_content"
    /\ result = Err("reqwest::Error (body)")
    /\ Len(sent) = 1
    /\ sent[1].by = "generate_content"
    /\ transport.body # <<>>

(***************************************************************************)
(* The model a client hands out and the requests prepared from it          *)
(***************************************************************************)

\* the name GenerativeModel::new stores for a given name
StoredName(name) ==
    GenerativeModelNew(<<"KEY">>, ModelParamsNew(name), None).model

\* C26: GenerativeModel::new keeps a name that contains '/' as it is and
\* puts models/ before any other name; so the stored name always contains
\* '/', and storing a stored name again changes nothing.
C26_NameNormalised ==
    /\ \A name \in ModelNames :
           /\ Contains(name, "/") => StoredName(name) = name
           /\ ~Contains(name, "/")
              => StoredName(name) = <<"models", "/">> \o name
           /\ StoredName(StoredName(name)) = StoredName(name)
    /\ model # NoModel
       => /\ Contains(model.model, "/")
          /\ StoredName(model.model) = model.model
          /\ \E name \in ModelNames : model.model = StoredName(name)

\* a model made from a name with a slash that is no models/ name
C26_Witness ==
    /\ model # NoModel
    /\ model.model = <<"/", "g">>
    /\ pc = "idle"

\* C25: the prepared request has exactly one Content, of role user, with
\* the given parts in the given order; its model name and its
\* generation_config, safety_settings, tools, tool_config,
\* system_instruction and cached_content are the model's; and no call
\* changes any field of the GenerativeModel, so every later call prepares
\* from the same defaults.
C25_PreparedRequest ==
    /\ [](model # NoModel
          => \A requests \in RequestParts :
                 prepare_request(model, requests).contents
                     = <<[role |-> "User", parts |-> requests]>>)
    /\ [](request # NoRequest
          => /\ Len(request.contents) = 1
             /\ request.contents[1].role = "User"
             /\ request.contents[1].parts \in RequestParts
             /\ request.model = model.model
             /\ request.generation_config = model.generation_config
             /\ request.safety_settings = model.safety_settings
             /\ request.tools = model.tools
             /\ request.tool_config = model.tool_config
             /\ request.system_instruction = model.system_instruction
             /\ request.cached_content = model.cached_content)
    /\ [][model # NoModel => model' = model]_vars

\* the second call on a model that carries every default, with two parts
C25_Witness ==
    /\ Len(sent) = 2
    /\ request # NoRequest
    /\ request.contents[1].parts = <<TextPart("hi"), TextPart("")>>
    /\ model.system_instruction.some
    /\ request.system_instruction = model.system_instruction
    /\ request.safety_settings = Some(<<"BLOCK_NONE">>)

(***************************************************************************)
(* The URLs of the requests                                                *)
(***************************************************************************)

\* base/version/name:task?key=api_key, where the base and the version are
\* one piece each or empty
UrlOfForm(url, name, task, api_key) ==
    \E b \in 0..1, v \in 0..1 :
        /\ Len(url) >= b + v + 2
        /\ \A i \in 1..b : url[i] # "/"
        /\ url[b + 1] = "/"
        /\ \A i \in (b + 2)..(b + v + 1) : url[i] # "/"
        /\ url[b + v + 2] = "/"
        /\ SubSeq(url, b + v + 3, Len(url))
           = name \o <<":", task, "?key=">> \o api_key

EndsWithSse(url) == url # <<>> /\ url[Len(url)] = "&alt=sse"

WithoutSse(url) ==
    IF EndsWithSse(url) THEN SubSeq(url, 1, Len(url) - 1) ELSE url

ModelCalls == {"generate_content", "generate_content_stream"}

\* C27: a request URL has the form base/version/model:task?key=api_key and
\* ends with &alt=sse exactly when the request is a streaming one:
\* generate_content never carries the suffix, generate_content_stream
\* always does, and but for the suffix both post to the same URL, the
\* generateContent task of the model; make_request carries the suffix
\* exactly when its stream flag is set.
C27_StreamingFlag ==
    /\ \A i \in 1..Len(sent) :
           sent[i].by \in ModelCalls
           => /\ UrlOfForm(WithoutSse(sent[i].url), model.model,
                           "generateContent", model.api_key)
              /\ EndsWithSse(sent[i].url)
                 <=> sent[i].by = "generate_content_stream"
    /\ \A i, j \in 1..Len(sent) :
           (sent[i].by \in ModelCalls /\ sent[j].by \in ModelCalls)
           => WithoutSse(sent[i].url) = WithoutSse(sent[j].url)
    /\ \A i \in 1..Len(sent) :
           sent[i].by \in {"make_request", "make_request (stream)"}
           => /\ EndsWithSse(sent[i].url)
                 <=> sent[i].by = "make_request (stream)"
              /\ \E name \in ModelNames, api_key \in ApiKeys,
                    task \in {"generateContent", "streamGenerateContent"} :
                     UrlOfForm(WithoutSse(sent[i].url), name, task, api_key)

\* one model, called once plainly and once streaming
C27_Witness ==
    /\ Len(sent) = 2
    /\ sent[1].by = "generate_content"
    /\ sent[2].by = "generate_content_stream"
    /\ sent[2].url = sent[1].url \o <<"&alt=sse">>
    /\ ~EndsWithSse(sent[1].url)

(***************************************************************************)
(* The defaults of the base URL and of the API version                     *)
(***************************************************************************)

\* the options a model in hand can have been made with
OptionsOf(m) ==
    {o \in RequestOptionsInputs :
        GenerativeModelNew(m.api_key, ModelParamsNew(m.model),
                           o).request_options = m.request_options}

\* the base URL the options ask for
BaseAskedFor(o) ==
    IF o.some /\ o.v.base_url.some THEN o.v.base_url.v
    ELSE <<"https://generativelanguage.googleapis.com">>

\* the version segment the options ask for
VersionAskedFor(o) ==
    IF o.some /\ o.v.api_version.some
    THEN (IF o.v.api_version.v = "V1" THEN <<"v1">> ELSE <<"v1beta">>)
    ELSE <<"v1beta">>

\* what stands between the first two slashes of a URL
VersionSegment(url) ==
    LET slashes == {i \in 1..Len(url) : url[i] = "/"}
        first == CHOOSE i \in slashes : \A j \in slashes : i <= j
        second == CHOOSE i \in slashes \ {first} :
                      \A j \in slashes \ {first} : i <= j
    IN SubSeq(url, first + 1, second - 1)

\* C22: whatever RequestOptions are given, absent or present with base_url
\* unset, every request URL starts with
\* https://generativelanguage.googleapis.com, and with base_url set it
\* starts with that value; for model requests, get_model_list,
\* get_model_info and make_request alike.
C22_DefaultBaseUrl ==
    /\ \A i \in 1..Len(sent) :
           \/ IsPrefix(<<"https://generativelanguage.googleapis.com">>,
                       sent[i].url)
           \/ IsPrefix(<<"http://localhost">>, sent[i].url)
    /\ model # NoModel
       => \A o \in OptionsOf(model) :
              /\ IsPrefix(BaseAskedFor(o),
                          make_model_request_url(model, "GenerateContent",
                                                 FALSE))
              /\ IsPrefix(BaseAskedFor(o),
                          get_model_list_url(model.api_key, o))
              /\ IsPrefix(BaseAskedFor(o),
                          get_model_info_url(model.api_key, model.model, o))

\* C23: whatever RequestOptions are given, absent or present with
\* api_version unset, the version segment of every request URL is the
\* default version and never empty, and with api_version set it is v1 or
\* v1beta as set; model requests, get_model_list and get_model_info have
\* the same segment for the same options.
C23_DefaultApiVersion ==
    /\ \A i \in 1..Len(sent) : VersionSegment(sent[i].url) # <<>>
    /\ model # NoModel
       => \A o \in OptionsOf(model) :
              /\ VersionSegment(make_model_request_url(model,
                                                       "GenerateContent",
                                                       TRUE))
                 = VersionAskedFor(o)
              /\ VersionSegment(get_model_list_url(model.api_key, o))
                 = VersionAskedFor(o)
              /\ VersionSegment(get_model_info_url(model.api_key,
                                                   model.model, o))
                 = VersionAskedFor(o)

(***************************************************************************)
(* How the model lookups fail                                              *)
(***************************************************************************)

Lookups == {"get_model_list", "get_model_info"}

\* C28: get_model_list and get_model_info hand every failure to the caller
\* as Err: when the request could not be sent, and when the body is not of
\* the expected type; they return Ok otherwise and never unwind the caller.
C28_LookupsFailAsValues ==
    pc \in Lookups
    => /\ result.tag \in {"Ok", "Err"}
       /\ ~transport.send => result.tag = "Err"
       /\ (transport.send /\ pc = "get_model_list")
          => result = ListModelResponse(wire)
       /\ (transport.send /\ pc = "get_model_info")
          => (result.tag = "Err" <=> Model(wire).tag = "Err")

====
